---- MODULE Spec2Model ----
(***************************************************************************)
(* Model of gatsby's in-memory node query core:                            *)
(*   packages/gatsby/src/redux/nodes.js    node store accessors, resolved  *)
(*                                         field cache, typed-chain index  *)
(*   packages/gatsby/src/redux/run-sift.js query executor (runSift)        *)
(*                                                                         *)
(* JavaScript values are tagged records; node objects are shared and are   *)
(* identified by their id (objs), so a slot written through one reference  *)
(* is seen through every other one, and an index keeps referring to an     *)
(* object after it left the store.                                         *)
(***************************************************************************)
EXTENDS Integers, Sequences, FiniteSets, TLC

VARIABLES
  nodes,              \* store.getState().nodes: ids in Map insertion order
  objs,               \* the node objects ever created, by id
  resolvedNodesCache, \* store.getState().resolvedNodesCache: type -> (id -> value)
  mappedByKey,        \* nodes.js module-level index cache: typedKey -> byKeyValue
  call,               \* the operation a caller has just run, with its arguments
  ret,                \* what that operation returned
  steps,              \* number of operations that changed the state so far
  batch               \* the saveResolvedNodes invocation (an async function)

vars == <<nodes, objs, resolvedNodesCache, mappedByKey, call, ret, steps, batch>>

---------------------------------------------------------------------------
(* Bounds of the model *)

MaxNodes == 3
MaxSteps == 3

IdPool == <<"a", "b", "c", "d", "e">>
Ids == {IdPool[i] : i \in 1..MaxNodes}
Types == {"Post", "Page"}
Scalars == {"x", "y"}

---------------------------------------------------------------------------
(* JavaScript values *)

Undefined == [k |-> "undefined"]
Null == [k |-> "null"]
Str(s) == [k |-> "string", s |-> s]
Arr(a) == [k |-> "array", a |-> a]
Obj(t) == [k |-> "object", title |-> t]

\* a node object: id, internal.type, one native field and the resolved slot
Node(id, type, title, slot) ==
  [k |-> "node", id |-> id, type |-> type, title |-> title, resolved |-> slot]

TitleVals == {Str("x"), Str("y"), Arr(<<"x", "y">>)}
ResolvedVals == {Obj(Str(s)) : s \in Scalars}

Range(f) == {f[i] : i \in DOMAIN f}
EmptyMap == [i \in {} |-> Undefined]
MapGet(m, key) == IF key \in DOMAIN m THEN m[key] ELSE Undefined
MapSet(m, key, v) == [i \in DOMAIN m \cup {key} |-> IF i = key THEN v ELSE m[i]]

RECURSIVE Join(_, _)
\* Array.prototype.join, token by token: the separator between the elements
Join(seq, sep) ==
  IF Len(seq) = 0 THEN <<>>
  ELSE IF Len(seq) = 1 THEN <<seq[1]>>
  ELSE <<seq[1], sep>> \o Join(Tail(seq), sep)

\* String.prototype.startsWith on token sequences
StartsWith(s, p) == Len(p) <= Len(s) /\ SubSeq(s, 1, Len(p)) = p

\* v[prop] of a JavaScript value
GetProp(v, prop) ==
  CASE v.k = "node" ->
         (CASE prop = "id" -> Str(v.id)
            [] prop = "title" -> v.title
            [] prop = "__gatsby_resolved" -> v.resolved
            [] prop = "internal" -> [k |-> "internal", type |-> v.type]
            [] OTHER -> Undefined)
    [] v.k = "object" -> (IF prop = "title" THEN v.title ELSE Undefined)
    [] v.k = "internal" -> (IF prop = "type" THEN Str(v.type) ELSE Undefined)
    [] OTHER -> Undefined

Truthy(v) == v.k \notin {"undefined", "null"}
\* typeof v is string, number or boolean
IsScalar(v) == v.k = "string"

---------------------------------------------------------------------------
(* The state container (redux store): nodes by id and by type *)

\* store.getState().nodes.get(id)
getNode(id) == IF id \in Range(nodes) THEN objs[id] ELSE Undefined

\* store.getState().nodesByType.get(type): the ids of that type, in order;
\* the empty sequence stands for "no Map for this type"
NodesByType(type) == SelectSeq(nodes, LAMBDA id : objs[id].type = type)

\* resolvedNodesCache.get(typeName)?.get(id)
CacheGet(cache, type, id) ==
  IF type \in DOMAIN cache THEN MapGet(cache[type], id) ELSE Undefined

Idle == [op |-> "idle"]
NoRet == [k |-> "none"]
NoBatch ==
  [pc |-> "idle", nodeTypeNames |-> <<>>, ti |-> 1, ids |-> <<>>, ni |-> 1,
   resolvedNodes |-> EmptyMap, inflight |-> {}, invoked |-> <<>>,
   dispatched |-> <<>>, results |-> EmptyMap, cache0 |-> EmptyMap]

Init ==
  /\ nodes = <<>>
  /\ objs = EmptyMap
  /\ resolvedNodesCache = EmptyMap
  /\ mappedByKey = EmptyMap
  /\ call = Idle
  /\ ret = NoRet
  /\ steps = 0
  /\ batch = NoBatch

\* CREATE_NODE: a new node object enters the store (ids are handed out in
\* pool order and never reused)
CreateNode(type, title) ==
  /\ call = Idle
  /\ batch.pc = "idle"
  /\ steps < MaxSteps
  /\ Cardinality(DOMAIN objs) < MaxNodes
  /\ LET id == IdPool[Cardinality(DOMAIN objs) + 1] IN
       /\ objs' = MapSet(objs, id, Node(id, type, title, Undefined))
       /\ nodes' = Append(nodes, id)
  /\ steps' = steps + 1
  /\ UNCHANGED <<resolvedNodesCache, mappedByKey, call, ret, batch>>

\* DELETE_NODE: the node leaves the store; the object lives on wherever it
\* is still referenced
DeleteNode(id) ==
  /\ call = Idle
  /\ batch.pc = "idle"
  /\ steps < MaxSteps
  /\ id \in Range(nodes)
  /\ nodes' = SelectSeq(nodes, LAMBDA j : j # id)
  /\ steps' = steps + 1
  /\ UNCHANGED <<objs, resolvedNodesCache, mappedByKey, call, ret, batch>>

\* a field of a stored node is changed in place (createNodeField and the like)
MutateNode(id, title) ==
  /\ call = Idle
  /\ batch.pc = "idle"
  /\ steps < MaxSteps
  /\ id \in Range(nodes)
  /\ objs[id].title # title
  /\ objs' = [objs EXCEPT ![id].title = title]
  /\ steps' = steps + 1
  /\ UNCHANGED <<nodes, resolvedNodesCache, mappedByKey, call, ret, batch>>

\* the reducer of SET_RESOLVED_NODES: the entry of one type is replaced
SetResolvedNodes(cache, key, resolvedNodes) == MapSet(cache, key, resolvedNodes)

\* a completed resolution of one type, seen from the query side
DispatchResolved(type, resolvedNodes) ==
  /\ call = Idle
  /\ batch.pc = "idle"
  /\ steps < MaxSteps
  /\ Len(NodesByType(type)) > 0
  /\ DOMAIN resolvedNodes = Range(NodesByType(type))
  /\ resolvedNodesCache' = SetResolvedNodes(resolvedNodesCache, type, resolvedNodes)
  /\ steps' = steps + 1
  /\ UNCHANGED <<nodes, objs, mappedByKey, call, ret, batch>>

---------------------------------------------------------------------------
(* nodes.js: the typed-chain index *)

\* the type restriction left out
TypesIncludeAny(nodeTypeNames, type) == TRUE

\* nodeTypeNames.includes(node.internal.type)
TypesInclude(nodeTypeNames, type) == type \in Range(nodeTypeNames)

\* the type names put in alphabetical order before they are joined
TypedKeyUnordered(chain, nodeTypeNames) ==
  Join(IF Range(nodeTypeNames) = {"Page", "Post"} THEN <<"Page", "Post">>
       ELSE nodeTypeNames, ",") \o <<"/">> \o Join(chain, "+")

\* `type,type/path+to+eqobj`
TypedKey(chain, nodeTypeNames) ==
  Join(nodeTypeNames, ",") \o <<"/">> \o Join(chain, "+")

\* if (!node.__gatsby_resolved) node.__gatsby_resolved = resolvedNodes?.get(node.id)
OverlayIfUnset(node, cache) ==
  IF ~Truthy(node.resolved)
  THEN [node EXCEPT !.resolved = CacheGet(cache, node.type, node.id)]
  ELSE node

RECURSIVE WalkChain(_, _, _)
\* while (i < chain.length && v) v = v[chain[i++]]
WalkChain(v, chain, i) ==
  IF i < Len(chain) /\ Truthy(v)
  THEN WalkChain(GetProp(v, chain[i + 1]), chain, i + 1)
  ELSE [v |-> v, i |-> i]

\* the walk consumed the chain and ended in a string, number or boolean
WalkEndsInScalar(w, chain) == IsScalar(w.v) /\ w.i = Len(chain)

\* a fresh Set for every node instead of the one already in the Map
SetAddFresh(set, id) == <<id>>

\* Set.prototype.add, the Set kept in insertion order
SetAdd(set, id) == IF id \in Range(set) THEN set ELSE Append(set, id)

\* one node's contribution to the index under construction
AddToIndex(byKeyValue, chain, node) ==
  LET w == WalkChain(node, chain, 0) IN
    IF ~WalkEndsInScalar(w, chain) THEN byKeyValue
    ELSE IF Join(chain, "+") = <<"id">>
      THEN MapSet(byKeyValue, w.v.s, [k |-> "ref", id |-> node.id])
      ELSE LET old == MapGet(byKeyValue, w.v.s)
               set == IF old.k = "set" THEN old.ids ELSE <<>>
           IN MapSet(byKeyValue, w.v.s, [k |-> "set", ids |-> SetAdd(set, node.id)])

RECURSIVE BuildIndex(_, _, _, _, _)
\* nodes.forEach(node => ...) over the whole store, in insertion order
BuildIndex(byKeyValue, ids, chain, nodeTypeNames, os) ==
  IF ids = <<>> THEN byKeyValue
  ELSE LET node == os[Head(ids)] IN
    BuildIndex(IF TypesInclude(nodeTypeNames, node.type)
                 THEN AddToIndex(byKeyValue, chain, node)
                 ELSE byKeyValue,
               Tail(ids), chain, nodeTypeNames, os)

\* an entry counts only while it is not empty
HasIndexNonEmpty(mbk, chain, nodeTypeNames) ==
  /\ TypedKey(chain, nodeTypeNames) \in DOMAIN mbk
  /\ DOMAIN mbk[TypedKey(chain, nodeTypeNames)] # {}

\* let byKeyValue = mappedByKey.get(typedKey); if (byKeyValue) return
HasIndex(mbk, chain, nodeTypeNames) == TypedKey(chain, nodeTypeNames) \in DOMAIN mbk

\* ensureIndexByTypedChain(chain, nodeTypeNames) on index cache mbk and
\* objects os: the index cache and the objects afterwards
ensureIndexByTypedChain(mbk, os, chain, nodeTypeNames) ==
  IF HasIndex(mbk, chain, nodeTypeNames) THEN [mbk |-> mbk, objs |-> os]
  ELSE
    LET os2 == [id \in DOMAIN os |->
                  IF id \in Range(nodes) /\ TypesInclude(nodeTypeNames, os[id].type)
                  THEN OverlayIfUnset(os[id], resolvedNodesCache)
                  ELSE os[id]]
    IN [mbk |-> MapSet(mbk, TypedKey(chain, nodeTypeNames),
                       BuildIndex(EmptyMap, nodes, chain, nodeTypeNames, os2)),
        objs |-> os2]

Reverse(seq) == [i \in DOMAIN seq |-> seq[Len(seq) + 1 - i]]

\* the entry of the same type names in the other order serves as well
getNodesByTypedChainAnyOrder(mbk, chain, value, nodeTypeNames) ==
  LET typedKey == TypedKey(chain, nodeTypeNames)
      other == TypedKey(chain, Reverse(nodeTypeNames))
  IN IF value.k # "string" THEN Undefined
     ELSE IF typedKey \in DOMAIN mbk THEN MapGet(mbk[typedKey], value.s)
     ELSE IF other \in DOMAIN mbk THEN MapGet(mbk[other], value.s)
     ELSE Undefined

\* getNodesByTypedChain(chain, value, nodeTypeNames):
\* mappedByKey?.get(typedKey)?.get(value)
getNodesByTypedChain(mbk, chain, value, nodeTypeNames) ==
  LET typedKey == TypedKey(chain, nodeTypeNames) IN
    IF typedKey \in DOMAIN mbk /\ value.k = "string"
    THEN MapGet(mbk[typedKey], value.s)
    ELSE Undefined

---------------------------------------------------------------------------
(* nodes.js: read-time overlay of the resolved values *)

\* a slot that holds a value is left alone
OverlayKeepingSet(node, cache) ==
  IF node.type \in DOMAIN cache /\ ~Truthy(node.resolved)
  THEN [node EXCEPT !.resolved = MapGet(cache[node.type], node.id)]
  ELSE node

\* if (resolvedNodes) node.__gatsby_resolved = resolvedNodes.get(node.id)
OverlayOnRead(node, cache) ==
  IF node.type \in DOMAIN cache
  THEN [node EXCEPT !.resolved = MapGet(cache[node.type], node.id)]
  ELSE node

\* nodes.forEach(node => { if (resolvedNodes) node.__gatsby_resolved = ...;
\* arr.push(node) }): objects and output array afterwards
addResolvedNodes(os, typeName, arr) ==
  LET ids == NodesByType(typeName) IN
    IF ids = <<>> THEN [objs |-> os, arr |-> arr]
    ELSE [objs |-> [id \in DOMAIN os |->
                      IF id \in Range(ids)
                      THEN OverlayOnRead(os[id], resolvedNodesCache)
                      ELSE os[id]],
          arr |-> arr \o ids]

\* getResolvedNode(typeName, id): objects afterwards and the node returned
getResolvedNode(os, typeName, id) ==
  LET ids == NodesByType(typeName) IN
    IF ids = <<>> \/ id \notin Range(ids) THEN [objs |-> os, result |-> Null]
    ELSE [objs |-> [os EXCEPT ![id] = OverlayOnRead(@, resolvedNodesCache)],
          result |-> [k |-> "ref", id |-> id]]

\* a caller runs getResolvedNode(typeName, id)
GetResolvedNode(typeName, id) ==
  /\ call = Idle
  /\ LET r == getResolvedNode(objs, typeName, id) IN
       /\ objs' = r.objs
       /\ ret' = r.result
  \* before: the slot as the read found it
  /\ call' = [op |-> "getResolvedNode", typeName |-> typeName, id |-> id,
              before |-> IF id \in DOMAIN objs THEN objs[id].resolved ELSE Undefined]
  /\ UNCHANGED <<nodes, resolvedNodesCache, mappedByKey, steps, batch>>

\* a caller runs addResolvedNodes(typeName, arr) with an empty arr
AddResolvedNodes(typeName) ==
  /\ call = Idle
  /\ LET r == addResolvedNodes(objs, typeName, <<>>) IN
       /\ objs' = r.objs
       /\ ret' = Arr(r.arr)
  /\ call' = [op |-> "addResolvedNodes", typeName |-> typeName]
  /\ UNCHANGED <<nodes, resolvedNodesCache, mappedByKey, steps, batch>>

---------------------------------------------------------------------------
(* nodes.js: saveResolvedNodes, an async function *)

(* batch.pc is where the function stands: "await" while it is suspended on *)
(* a resolver promise, "done" and "rejected" once its own promise settled. *)
(* invoked, dispatched and results record what it did; cache0 is the cache *)
(* when it was called. The store does not change while a batch runs.       *)

\* the placeholder a pending promise is when it is used as a value
Promise == [k |-> "promise"]

\* the resolver promise is used without being awaited
NotAwaited == FALSE
\* const resolved = await resolver(node)
Awaited == TRUE

\* one Map for the whole batch instead of one per type
SameMap(resolvedNodes) == resolvedNodes
\* const resolvedNodes = new Map(), once per type
NewMap(resolvedNodes) == EmptyMap

RECURSIVE RunBatch(_, _)
\* the function runs from node ni of type ti until it suspends or returns:
\* the batch and the cache at that point
RunBatch(b, cache) ==
  IF b.ti > Len(b.nodeTypeNames) THEN [batch |-> [b EXCEPT !.pc = "done"], cache |-> cache]
  ELSE IF b.ids = <<>>
    THEN \* if (nodes) fails: no resolver call, no dispatch
      LET ti == b.ti + 1 IN
        RunBatch([b EXCEPT !.ti = ti,
                           !.ids = IF ti <= Len(b.nodeTypeNames)
                                   THEN NodesByType(b.nodeTypeNames[ti]) ELSE <<>>,
                           !.ni = 1,
                           !.resolvedNodes = NewMap(b.resolvedNodes)],
                 cache)
  ELSE IF b.ni <= Len(b.ids)
    THEN \* resolver(node) is called
      LET id == b.ids[b.ni]
          b1 == [b EXCEPT !.inflight = @ \cup {id}, !.invoked = Append(@, id)]
      IN IF Awaited THEN [batch |-> [b1 EXCEPT !.pc = "await"], cache |-> cache]
         ELSE RunBatch([b1 EXCEPT !.resolvedNodes = MapSet(@, id, Promise),
                                  !.ni = @ + 1], cache)
  ELSE \* the type is through: store.dispatch(SET_RESOLVED_NODES)
    LET ti == b.ti + 1 IN
      RunBatch([b EXCEPT !.dispatched = Append(@, b.nodeTypeNames[b.ti]),
                         !.ti = ti,
                         !.ids = IF ti <= Len(b.nodeTypeNames)
                                 THEN NodesByType(b.nodeTypeNames[ti]) ELSE <<>>,
                         !.ni = 1,
                         !.resolvedNodes = NewMap(b.resolvedNodes)],
               SetResolvedNodes(cache, b.nodeTypeNames[b.ti], b.resolvedNodes))

\* a caller calls saveResolvedNodes(nodeTypeNames, resolver)
SaveResolvedNodes(nodeTypeNames) ==
  /\ call = Idle
  /\ batch.pc \in {"idle", "done", "rejected"}
  /\ batch.inflight = {}
  /\ steps < MaxSteps
  /\ steps' = steps + 1
  /\ LET r == RunBatch([NoBatch EXCEPT !.nodeTypeNames = nodeTypeNames,
                                       !.ids = NodesByType(nodeTypeNames[1]),
                                       !.cache0 = resolvedNodesCache],
                       resolvedNodesCache)
     IN /\ batch' = r.batch
        /\ resolvedNodesCache' = r.cache
  /\ UNCHANGED <<nodes, objs, mappedByKey, call, ret>>

\* the rejection ends the function: nothing is published for the type
AfterRejectPublish(b, cache) ==
  [batch |-> [b EXCEPT !.pc = "rejected"],
   cache |-> SetResolvedNodes(cache, b.nodeTypeNames[b.ti], b.resolvedNodes)]
AfterReject(b, cache) == [batch |-> [b EXCEPT !.pc = "rejected"], cache |-> cache]

\* the promise of resolver(node) is fulfilled with resolved
ResolverFulfils(id, resolved) ==
  /\ id \in batch.inflight
  /\ LET b1 == [batch EXCEPT !.inflight = @ \ {id},
                             !.results = MapSet(@, id, resolved)]
         r == IF batch.pc = "await" /\ batch.ids[batch.ni] = id
              THEN RunBatch([b1 EXCEPT !.resolvedNodes = MapSet(@, id, resolved),
                                       !.ni = @ + 1], resolvedNodesCache)
              ELSE [batch |-> b1, cache |-> resolvedNodesCache]
     IN /\ batch' = r.batch
        /\ resolvedNodesCache' = r.cache
  /\ UNCHANGED <<nodes, objs, mappedByKey, call, ret, steps>>

\* the promise of resolver(node) is rejected
ResolverRejects(id) ==
  /\ id \in batch.inflight
  /\ LET b1 == [batch EXCEPT !.inflight = @ \ {id}]
         r == IF batch.pc = "await" /\ batch.ids[batch.ni] = id
              THEN AfterReject(b1, resolvedNodesCache)
              ELSE [batch |-> b1, cache |-> resolvedNodesCache]
     IN /\ batch' = r.batch
        /\ resolvedNodesCache' = r.cache
  /\ UNCHANGED <<nodes, objs, mappedByKey, call, ret, steps>>

---------------------------------------------------------------------------
(* run-sift.js: parsing the filter *)

(* A filter object is given by its leaves in key order: the chain of keys  *)
(* down to the comparison operator, and the operand. <<>> is the absent    *)
(* filter and the empty one alike (prepareQueryArgs defaults to {}).       *)
Leaf(chain, val) == [chain |-> chain, val |-> val]

Front(seq) == SubSeq(seq, 1, Len(seq) - 1)
Last(seq) == seq[Len(seq)]

\* prepareQueryArgs: the operator key gets its `$`
PrepareKey(key) ==
  CASE key = "eq" -> "$eq"
    [] key = "ne" -> "$ne"
    [] key = "in" -> "$in"
    [] key = "elemMatch" -> "$elemMatch"
    [] OTHER -> key

RECURSIVE DottedFrom(_, _)
DottedFrom(leaves, acc) ==
  IF leaves = <<>> THEN acc
  ELSE
    LET leaf == Head(leaves)
        n == Len(leaf.chain)
        \* { path: { elemMatch: { <op>: <operand> } } } stays one clause of path
        nested == n >= 2 /\ leaf.chain[n - 1] = "elemMatch"
        path == Join(SubSeq(leaf.chain, 1, IF nested THEN n - 2 ELSE n - 1), ".")
        inner == [op |-> PrepareKey(Last(leaf.chain)), val |-> leaf.val]
        clause == IF nested THEN [op |-> PrepareKey("elemMatch"), val |-> inner]
                  ELSE inner
        at == {i \in DOMAIN acc : acc[i].path = path}
    IN DottedFrom(Tail(leaves),
         IF at = {} THEN Append(acc, [path |-> path, ops |-> <<clause>>])
         ELSE [acc EXCEPT ![CHOOSE i \in at : TRUE].ops = Append(@, clause)])

\* toDottedFields(prepareQueryArgs(filter)): one entry per dotted field path,
\* holding its operator clauses
toDottedFields(filter) == DottedFrom(filter, <<>>)

ResolvedPrefix == <<"__gatsby_resolved", ".">>

\* liftResolvedFields: a path declared resolved (or below a declared path)
\* is looked up under the resolved slot
liftResolvedFields(entries, resolvedFields) ==
  [i \in DOMAIN entries |->
     IF \/ entries[i].path \in resolvedFields
        \/ /\ \E key \in resolvedFields : StartsWith(key, entries[i].path)
           /\ \E j \in DOMAIN entries[i].ops : entries[i].ops[j].op = "$elemMatch"
        \/ \E key \in resolvedFields : StartsWith(entries[i].path, key)
     THEN [entries[i] EXCEPT !.path = ResolvedPrefix \o @]
     ELSE entries[i]]

RECURSIVE SplitDots(_)
\* selector.split(`.`)
SplitDots(dotted) ==
  IF \A i \in DOMAIN dotted : dotted[i] # "." THEN <<dotted>>
  ELSE LET i == CHOOSE j \in DOMAIN dotted :
                  dotted[j] = "." /\ \A h \in 1..(j - 1) : dotted[h] # "."
       IN <<SubSeq(dotted, 1, i - 1)>> \o SplitDots(SubSeq(dotted, i + 1, Len(dotted)))

\* the property a path segment names ("" names no property of any object here)
PropName(segment) == IF Len(segment) = 1 THEN segment[1] ELSE ""

RECURSIVE GetAt(_, _)
GetAt(obj, selectors) ==
  LET value == GetProp(obj, PropName(Head(selectors))) IN
    IF Len(selectors) = 1 THEN value
    ELSE IF value.k \in {"object", "node", "internal"} THEN GetAt(value, Tail(selectors))
    ELSE Undefined

\* getValueAt(obj, selector)
getValueAt(obj, selector) == GetAt(obj, SplitDots(selector))

---------------------------------------------------------------------------
(* the sift matcher: $and of the clauses *)

\* $eq: equal, or an array holding an equal element
SiftEq(operand, value) ==
  IF value.k = "array" /\ Len(value.a) > 0
  THEN \E i \in DOMAIN value.a : Str(value.a[i]) = operand
  ELSE value = operand

\* $eq, $ne and $in against one value
SiftCompare(clause, value) ==
  CASE clause.op = "$eq" -> SiftEq(clause.val, value)
    [] clause.op = "$ne" -> ~SiftEq(clause.val, value)
    [] clause.op = "$in" ->
         (clause.val.k = "array"
            /\ \E i \in DOMAIN clause.val.a : SiftEq(Str(clause.val.a[i]), value))
    [] OTHER -> FALSE

\* one operator clause; $elemMatch asks for an array element that passes the
\* nested clause
SiftTest(clause, value) ==
  IF clause.op = "$elemMatch"
  THEN value.k = "array"
         /\ \E i \in DOMAIN value.a : SiftCompare(clause.val, Str(value.a[i]))
  ELSE SiftCompare(clause, value)

\* sift({ $and: siftArgs })(node)
SiftMatches(siftArgs, node) ==
  \A i \in DOMAIN siftArgs : \A j \in DOMAIN siftArgs[i].ops :
     SiftTest(siftArgs[i].ops[j], getValueAt(node, siftArgs[i].path))

isEqId(siftArgs) ==
  /\ Len(siftArgs) > 0
  /\ siftArgs[1].path = <<"id">>
  /\ Len(siftArgs[1].ops) = 1
  /\ siftArgs[1].ops[1].op = "$eq"

handleFirst(siftArgs, nodeIds, os) ==
  IF Len(nodeIds) = 0 THEN Arr(<<>>)
  ELSE
    LET hits == {i \in DOMAIN nodeIds : SiftMatches(siftArgs, os[nodeIds[i]])} IN
      IF siftArgs = <<>> THEN Arr(<<nodeIds[1]>>)
      ELSE IF hits # {} THEN Arr(<<nodeIds[CHOOSE i \in hits : \A j \in hits : i <= j]>>)
      ELSE Arr(<<>>)

---------------------------------------------------------------------------
(* _.orderBy(result, sortFields, sortOrder) *)

\* the strings of the model in JavaScript's order; an array compares as its
\* elements joined by ","
StringOrder == <<"", "a", "b", "c", "d", "e", "x", "x,y", "y">>
SortString(v) ==
  CASE v.k = "string" -> v.s
    [] v = Arr(<<"x", "y">>) -> "x,y"
    [] OTHER -> ""
StringRank(v) == CHOOSE i \in DOMAIN StringOrder : StringOrder[i] = SortString(v)

\* lodash compareAscending: undefined sorts last
compareAscending(value, other) ==
  IF value = other THEN 0
  ELSE IF value.k = "undefined" THEN 1
  ELSE IF other.k = "undefined" THEN -1
  ELSE IF StringRank(value) > StringRank(other) THEN 1
  ELSE IF StringRank(value) < StringRank(other) THEN -1
  ELSE 0

RECURSIVE CompareFrom(_, _, _, _)
\* lodash compareMultiple, from criterion i on
CompareFrom(objCriteria, othCriteria, orders, i) ==
  IF i > Len(objCriteria) THEN 0
  ELSE
    LET result == compareAscending(objCriteria[i], othCriteria[i]) IN
      IF result # 0
      THEN IF i > Len(orders) THEN result
           ELSE result * (IF orders[i] = "desc" THEN -1 ELSE 1)
      ELSE CompareFrom(objCriteria, othCriteria, orders, i + 1)

Criteria(node, sortFields) == [i \in DOMAIN sortFields |-> getValueAt(node, sortFields[i])]

RECURSIVE InsertSorted(_, _, _, _, _)
\* x goes before the first element that compares greater: ties keep their order
InsertSorted(sorted, x, os, sortFields, sortOrder) ==
  IF sorted = <<>> THEN <<x>>
  ELSE IF CompareFrom(Criteria(os[Head(sorted)], sortFields),
                      Criteria(os[x], sortFields), sortOrder, 1) > 0
    THEN <<x>> \o sorted
    ELSE <<Head(sorted)>> \o InsertSorted(Tail(sorted), x, os, sortFields, sortOrder)

RECURSIVE OrderFrom(_, _, _, _, _)
OrderFrom(sorted, rest, os, sortFields, sortOrder) ==
  IF rest = <<>> THEN sorted
  ELSE OrderFrom(InsertSorted(sorted, Head(rest), os, sortFields, sortOrder),
                 Tail(rest), os, sortFields, sortOrder)

orderBy(result, os, sortFields, sortOrder) == OrderFrom(<<>>, result, os, sortFields, sortOrder)

\* String.prototype.toLowerCase on the direction words
toLowerCase(order) ==
  CASE order = "ASC" -> "asc"
    [] order = "DESC" -> "desc"
    [] OTHER -> order

\* the prefix test turned round: the field is a prefix of a declared path
SortFieldPathOfPrefix(field, resolvedFields) ==
  IF field \in resolvedFields \/ \E key \in resolvedFields : StartsWith(key, field)
  THEN ResolvedPrefix \o field
  ELSE field

\* the path a sort field is compared on
SortFieldPath(field, resolvedFields) ==
  IF field \in resolvedFields \/ \E key \in resolvedFields : StartsWith(field, key)
  THEN ResolvedPrefix \o field
  ELSE field

handleMany(siftArgs, nodeIds, sort, resolvedFields, os) ==
  LET result == IF siftArgs = <<>> THEN nodeIds
                ELSE SelectSeq(nodeIds, LAMBDA id : SiftMatches(siftArgs, os[id]))
  IN
    IF Len(result) = 0 THEN Null
    ELSE IF Truthy(sort) /\ Len(result) > 1
      THEN Arr(orderBy(result, os,
                 [i \in DOMAIN sort.fields |-> SortFieldPath(sort.fields[i], resolvedFields)],
                 [i \in DOMAIN sort.order |-> toLowerCase(sort.order[i])]))
      ELSE Arr(result)

---------------------------------------------------------------------------
(* run-sift.js: the query executor *)

\* elemMatch taken for a key like any other
getFlatPropertyChainAnyKey(filter) ==
  IF Len(filter) # 1 THEN Undefined
  ELSE IF IsScalar(filter[1].val)
    THEN [k |-> "chain", chain |-> filter[1].chain, leaf |-> filter[1].val]
    ELSE Undefined

\* getFlatPropertyChain(obj): the keys and the scalar leaf of a filter that
\* has one key at every level, or undefined
getFlatPropertyChain(filter) ==
  IF Len(filter) # 1 THEN Undefined
  ELSE IF "elemMatch" \in Range(filter[1].chain) THEN Undefined
  ELSE IF IsScalar(filter[1].val)
    THEN [k |-> "chain", chain |-> filter[1].chain, leaf |-> filter[1].val]
    ELSE Undefined

\* an id the index does not hold gives the empty array
FlatResultEmpty(chain, nodesByKeyValue, firstOnly) ==
  IF Join(chain, ",") = <<"id">>
  THEN IF Truthy(nodesByKeyValue) THEN Arr(<<nodesByKeyValue.id>>) ELSE Arr(<<>>)
  ELSE IF nodesByKeyValue.k = "set" /\ Len(nodesByKeyValue.ids) > 0
    THEN Arr(nodesByKeyValue.ids)
    ELSE Undefined

\* what runFlatFilterWithoutSift makes of the index entry it found
FlatResult(chain, nodesByKeyValue, firstOnly) ==
  IF Join(chain, ",") = <<"id">>
  THEN IF Truthy(nodesByKeyValue) THEN Arr(<<nodesByKeyValue.id>>) ELSE Undefined
  ELSE IF nodesByKeyValue.k = "set" /\ Len(nodesByKeyValue.ids) > 0
    THEN Arr(nodesByKeyValue.ids)
    ELSE Undefined

runFlatFilterWithoutSift(mbk, os, chain, targetValue, nodeTypeNames, firstOnly) ==
  LET e == ensureIndexByTypedChain(mbk, os, chain, nodeTypeNames)
      nodesByKeyValue == getNodesByTypedChain(e.mbk, chain, targetValue, nodeTypeNames)
  IN [mbk |-> e.mbk, objs |-> e.objs,
      result |-> FlatResult(chain, nodesByKeyValue, firstOnly)]

\* the id shortcut of runSiftOnNodes: getNode and the type restriction
EqIdResult(os, id, nodeTypeNames, firstOnly) ==
  IF id.k = "string" /\ id.s \in Range(nodes)
     /\ TypesInclude(nodeTypeNames, os[id.s].type)
  THEN Arr(<<id.s>>)
  ELSE IF firstOnly THEN Arr(<<>>) ELSE Null

\* runSiftOnNodes(nodes, args, getNode) on the objects os
runSiftOnNodes(os, nodeIds, args) ==
  LET siftFilter == liftResolvedFields(toDottedFields(args.queryArgs.filter),
                                       args.resolvedFields)
  IN
    IF isEqId(siftFilter)
    THEN EqIdResult(os, siftFilter[1].ops[1].val, args.nodeTypeNames, args.firstOnly)
    ELSE IF args.firstOnly THEN handleFirst(siftFilter, nodeIds, os)
    ELSE handleMany(siftFilter, nodeIds, args.queryArgs.sort, args.resolvedFields, os)

RECURSIVE GatherNodes(_, _, _)
\* nodeTypeNames.forEach(typeName => addResolvedNodes(typeName, nodes))
GatherNodes(os, nodeTypeNames, arr) ==
  IF nodeTypeNames = <<>> THEN [objs |-> os, arr |-> arr]
  ELSE LET r == addResolvedNodes(os, Head(nodeTypeNames), arr) IN
         GatherNodes(r.objs, Tail(nodeTypeNames), r.arr)

\* the generic path of runSift: gather the nodes of the types, then match
GenericPath(mbk, os, args) ==
  LET g == GatherNodes(os, args.nodeTypeNames, <<>>) IN
    [mbk |-> mbk, objs |-> g.objs, result |-> runSiftOnNodes(g.objs, g.arr, args),
     fast |-> FALSE]

\* runSift(args): index cache, objects and result afterwards; fast tells
\* whether the typed-chain index answered
runSift(mbk, os, args) ==
  LET flatChain == getFlatPropertyChain(args.queryArgs.filter) IN
    IF Truthy(flatChain) /\ Last(flatChain.chain) = "eq"
    THEN
      LET r == runFlatFilterWithoutSift(mbk, os, Front(flatChain.chain),
                 flatChain.leaf, args.nodeTypeNames, args.firstOnly)
      IN IF Truthy(r.result)
         THEN [mbk |-> r.mbk, objs |-> r.objs, result |-> r.result, fast |-> TRUE]
         ELSE GenericPath(r.mbk, r.objs, args)
    ELSE GenericPath(mbk, os, args)

\* a caller runs runSift(args)
RunSift(args) ==
  /\ call = Idle
  /\ LET r == runSift(mappedByKey, objs, args)
         changed == r.mbk # mappedByKey \/ r.objs # objs
     IN
       /\ changed => steps < MaxSteps
       /\ steps' = IF changed THEN steps + 1 ELSE steps
       /\ mappedByKey' = r.mbk
       /\ objs' = r.objs
       /\ call' = [op |-> "runSift", args |-> args, fast |-> r.fast]
       /\ ret' = r.result
  /\ UNCHANGED <<nodes, resolvedNodesCache, batch>>

\* a caller runs ensureIndexByTypedChain(chain, nodeTypeNames)
EnsureIndex(chain, nodeTypeNames) ==
  /\ call = Idle
  /\ LET r == ensureIndexByTypedChain(mappedByKey, objs, chain, nodeTypeNames)
         built == ~HasIndex(mappedByKey, chain, nodeTypeNames)
     IN
       /\ built => steps < MaxSteps
       /\ steps' = IF built THEN steps + 1 ELSE steps
       /\ mappedByKey' = r.mbk
       /\ objs' = r.objs
       /\ call' = [op |-> "ensureIndexByTypedChain", chain |-> chain,
                   nodeTypeNames |-> nodeTypeNames, built |-> built]
       /\ ret' = NoRet
  /\ UNCHANGED <<nodes, resolvedNodesCache, batch>>

\* a caller runs runSiftOnNodes(nodes, args, getNode) on candidates of its own
RunSiftOnNodes(nodeIds, args) ==
  /\ call = Idle
  /\ call' = [op |-> "runSiftOnNodes", nodes |-> nodeIds, args |-> args]
  /\ ret' = runSiftOnNodes(objs, nodeIds, args)
  /\ UNCHANGED <<nodes, objs, resolvedNodesCache, mappedByKey, steps, batch>>

\* a caller runs getNodesByTypedChain(chain, value, nodeTypeNames)
GetNodesByTypedChain(chain, value, nodeTypeNames) ==
  /\ call = Idle
  /\ call' = [op |-> "getNodesByTypedChain", chain |-> chain, value |-> value,
              nodeTypeNames |-> nodeTypeNames]
  /\ ret' = getNodesByTypedChain(mappedByKey, chain, value, nodeTypeNames)
  /\ UNCHANGED <<nodes, objs, resolvedNodesCache, mappedByKey, steps, batch>>

\* the caller takes the result and goes on
Return ==
  /\ call # Idle
  /\ call' = Idle
  /\ ret' = NoRet
  /\ UNCHANGED <<nodes, objs, resolvedNodesCache, mappedByKey, steps, batch>>

---------------------------------------------------------------------------
(* The inputs *)

TypeLists == {<<"Post">>, <<"Post", "Page">>, <<"Page", "Post">>}
Chains == {<<"id">>, <<"title">>, <<"__gatsby_resolved", "title">>}

Args(filter, sort, firstOnly, resolvedFields, nodeTypeNames) ==
  [queryArgs |-> [filter |-> filter, sort |-> sort], firstOnly |-> firstOnly,
   resolvedFields |-> resolvedFields, nodeTypeNames |-> nodeTypeNames]

Sort(fields, order) == [k |-> "object", fields |-> fields, order |-> order]

\* { title: { <op>: <operand> } }
TitleFilters ==
  {<<Leaf(<<"title", "eq">>, Str(s))>> : s \in Scalars}
    \cup {<<Leaf(<<"title", "ne">>, Str("x"))>>}
\* no filter, { id: { eq: <id> } }, { __gatsby_resolved: { title: { eq: "x" } } }
OtherFilters ==
  {<<>>, <<Leaf(<<"__gatsby_resolved", "title", "eq">>, Str("x"))>>}
    \cup {<<Leaf(<<"id", "eq">>, Str(IdPool[i]))>> : i \in 1..2}

\* { id: { eq: <id> }, title: { eq: "y" } } and the same with the keys swapped
PairFilters ==
  {<<Leaf(<<"id", "eq">>, Str(IdPool[1])), Leaf(<<"title", "eq">>, Str("y"))>>,
   <<Leaf(<<"title", "eq">>, Str("y")), Leaf(<<"id", "eq">>, Str(IdPool[1]))>>}
\* { title: { elemMatch: { eq: "x" } } }, { title: { in: ["x", "y"] } },
\* { title: { eq: null } }
UnsupportedFilters ==
  {<<Leaf(<<"title", "elemMatch", "eq">>, Str("x"))>>,
   <<Leaf(<<"title", "in">>, Arr(<<"x", "y">>))>>,
   <<Leaf(<<"title", "eq">>, Null)>>}

ResolvedFieldSets == {{}, {<<"title">>}}

Queries ==
  {Args(f, Undefined, fo, rf, ns) :
     f \in TitleFilters, fo \in BOOLEAN, rf \in ResolvedFieldSets, ns \in TypeLists}
    \cup {Args(f, Undefined, fo, {}, ns) :
            f \in OtherFilters, fo \in BOOLEAN, ns \in TypeLists}

\* queries by the shape of their filter
ShapeQueries ==
  {Args(f, Undefined, fo, {}, ns) :
     f \in PairFilters \cup UnsupportedFilters
            \cup {<<>>, <<Leaf(<<"title", "eq">>, Str("x"))>>,
                  <<Leaf(<<"title", "ne">>, Str("x"))>>,
                  <<Leaf(<<"id", "eq">>, Str(IdPool[1]))>>},
     fo \in BOOLEAN, ns \in {<<"Post">>, <<"Post", "Page">>}}

Sorts ==
  {Sort(<<<<"title">>>>, <<"asc">>),
   Sort(<<<<"id">>>>, <<"DESC">>),
   Sort(<<<<"title">>, <<"id">>>>, <<"desc", "desc">>)}

\* resolvedFields { title: { len: true } }: a declared path below title
NestedResolvedFields == {<<"title", ".", "len">>}

SortedQueries ==
  {Args(f, s, FALSE, rf, ns) :
     f \in {<<>>, <<Leaf(<<"title", "eq">>, Str("x"))>>,
            <<Leaf(<<"title", "ne">>, Str("x"))>>},
     s \in Sorts, rf \in ResolvedFieldSets \cup {NestedResolvedFields},
     ns \in {<<"Post">>, <<"Post", "Page">>}}

StoreNext ==
  \/ \E t \in Types, v \in TitleVals : CreateNode(t, v)
  \/ \E id \in Ids : DeleteNode(id)
  \/ \E id \in Ids, v \in TitleVals : MutateNode(id, v)
  \/ \E t \in Types : \E m \in [Range(NodesByType(t)) -> ResolvedVals] :
       DispatchResolved(t, m)

Next ==
  \/ StoreNext
  \/ \E q \in Queries : RunSift(q)
  \/ Return

Spec == Init /\ [][Next]_vars

NextIndex ==
  \/ StoreNext
  \/ \E c \in Chains, ns \in TypeLists : EnsureIndex(c, ns)
  \/ Return

SpecIndex == Init /\ [][NextIndex]_vars

NextSort ==
  \/ \E t \in Types, v \in TitleVals : CreateNode(t, v)
  \/ \E t \in Types : \E m \in [Range(NodesByType(t)) -> ResolvedVals] :
       DispatchResolved(t, m)
  \/ \E q \in SortedQueries : RunSift(q)
  \/ Return

SpecSort == Init /\ [][NextSort]_vars

NextShape ==
  \/ \E t \in Types, v \in TitleVals : CreateNode(t, v)
  \/ \E id \in Ids : DeleteNode(id)
  \/ \E q \in ShapeQueries : RunSift(q)
  \/ Return

SpecShape == Init /\ [][NextShape]_vars

\* the candidate sequences a caller may pass: stored nodes, in stored order
CandidateSeqs ==
  {SelectSeq(nodes, LAMBDA id : id \in S) : S \in SUBSET Range(nodes)}

NextDirect ==
  \/ \E t \in Types, v \in {Str("x"), Str("y")} : CreateNode(t, v)
  \/ \E id \in Ids : DeleteNode(id)
  \/ \E c \in CandidateSeqs, q \in ShapeQueries : RunSiftOnNodes(c, q)
  \/ Return

SpecDirect == Init /\ [][NextDirect]_vars

NextLookup ==
  \/ \E t \in Types, v \in {Str("x"), Str("y")} : CreateNode(t, v)
  \/ \E id \in Ids : DeleteNode(id)
  \/ \E c \in {<<"id">>, <<"title">>}, ns \in TypeLists : EnsureIndex(c, ns)
  \/ \E c \in {<<"id">>, <<"title">>}, v \in {Str("x"), Str(IdPool[1])},
        ns \in TypeLists : GetNodesByTypedChain(c, v, ns)
  \/ Return

SpecLookup == Init /\ [][NextLookup]_vars

NextOverlay ==
  \/ \E t \in Types : CreateNode(t, Str("x"))
  \/ \E id \in Ids : DeleteNode(id)
  \/ \E t \in Types : \E m \in [Range(NodesByType(t)) -> ResolvedVals] :
       DispatchResolved(t, m)
  \/ \E t \in Types, id \in Ids : GetResolvedNode(t, id)
  \/ \E t \in Types : AddResolvedNodes(t)
  \/ Return

SpecOverlay == Init /\ [][NextOverlay]_vars

BatchTypeLists == TypeLists \cup {<<"Page">>}

NextBatch ==
  \/ \E t \in Types : CreateNode(t, Str("x"))
  \/ \E id \in Ids : DeleteNode(id)
  \/ \E t \in Types : \E m \in [Range(NodesByType(t)) -> ResolvedVals] :
       DispatchResolved(t, m)
  \/ \E ns \in BatchTypeLists : SaveResolvedNodes(ns)
  \/ \E id \in Ids, v \in ResolvedVals : ResolverFulfils(id, v)
  \/ \E id \in Ids : ResolverRejects(id)
  \/ \E t \in Types, id \in Ids : GetResolvedNode(t, id)
  \/ Return

SpecBatch == Init /\ [][NextBatch]_vars

---------------------------------------------------------------------------
(* What the claims speak of *)

\* the node as a reader sees it once the overlay has run: the slot holds
\* what the cache holds for (type, id)
Overlaid(node) ==
  IF node.type \in DOMAIN resolvedNodesCache
  THEN [node EXCEPT !.resolved = MapGet(resolvedNodesCache[node.type], node.id)]
  ELSE node

\* the stored nodes of the requested types that satisfy the filter
MatchingNodes(args) ==
  LET siftFilter == liftResolvedFields(toDottedFields(args.queryArgs.filter),
                                       args.resolvedFields)
  IN {id \in Range(nodes) :
        /\ objs[id].type \in Range(args.nodeTypeNames)
        /\ SiftMatches(siftFilter, Overlaid(objs[id]))}

\* the chain and type list of the query's flat equality filter
QueryChain(args) == Front(getFlatPropertyChain(args.queryArgs.filter).chain)

\* the index entry of the query is what a build in this state would give
QueryIndexCurrent(args) ==
  LET key == TypedKey(QueryChain(args), args.nodeTypeNames) IN
    /\ key \in DOMAIN mappedByKey
    /\ mappedByKey[key] =
         BuildIndex(EmptyMap, nodes, QueryChain(args), args.nodeTypeNames, objs)

\* what the generic matcher returns for the query in this state
GenericResult(args) == GenericPath(mappedByKey, objs, args).result

\* the caller has had the fields it declares resolved computed: the cache
\* holds a value for every stored node of the requested types
ResolvedReady(args) ==
  args.resolvedFields # {} =>
    \A id \in Range(nodes) :
      objs[id].type \in Range(args.nodeTypeNames) =>
        /\ objs[id].type \in DOMAIN resolvedNodesCache
        /\ id \in DOMAIN resolvedNodesCache[objs[id].type]

ResultSet(r) == IF r.k = "array" THEN Range(r.a) ELSE {}

\* C1: with firstOnly the result of runSift is never null or undefined and
\* is a sequence of at most one node
C1_FirstOnlyAtMostOne ==
  (call.op = "runSift" /\ call.args.firstOnly)
    => (ret.k = "array" /\ Len(ret.a) <= 1)

\* C2: an all-matches query that no stored node of the requested types
\* satisfies returns null (stated for queries whose index entry, if one
\* answered, is current, so that no stale entry is involved, and whose
\* resolved fields have been computed)
C2_NoMatchReturnsNull ==
  (/\ call.op = "runSift"
   /\ ~call.args.firstOnly
   /\ ResolvedReady(call.args)
   /\ call.fast => QueryIndexCurrent(call.args)
   /\ MatchingNodes(call.args) = {})
    => ret = Null

\* C3: every node runSift returns has a type of the query's nodeTypeNames
C3_ReturnedTypesRequested ==
  (call.op = "runSift" /\ ret.k = "array")
    => \A i \in DOMAIN ret.a : objs[ret.a[i]].type \in Range(call.args.nodeTypeNames)

\* runSift returned nodes while the store holds a node of another type that
\* satisfies the filter as well
C3_Witness ==
  /\ call.op = "runSift"
  /\ ret.k = "array"
  /\ Len(ret.a) > 0
  /\ \E id \in Range(nodes) :
       /\ objs[id].type \notin Range(call.args.nodeTypeNames)
       /\ MatchingNodes([call.args EXCEPT !.nodeTypeNames = <<objs[id].type>>]) # {}

\* C4: when the typed-chain index answers an all-matches flat equality
\* query and its entry is current, the nodes are those the generic matcher
\* returns for the same query
C4_FastEqualsGeneric ==
  (/\ call.op = "runSift"
   /\ call.fast
   /\ ~call.args.firstOnly
   /\ ResolvedReady(call.args)
   /\ QueryIndexCurrent(call.args))
    => ResultSet(ret) = ResultSet(GenericResult(call.args))

\* the value a sort field stands for: the resolved value where the field is
\* declared resolved, the native one otherwise
SortValue(id, field, resolvedFields) ==
  getValueAt(Overlaid(objs[id]), SortFieldPath(field, resolvedFields))

\* the candidates in the order runSift gathers them
Candidates(args) == GatherNodes(objs, args.nodeTypeNames, <<>>).arr
Position(seq, x) == CHOOSE i \in DOMAIN seq : seq[i] = x

\* C5: an all-matches query with a sort specification that yields more than
\* one node returns them ordered by the sort fields, left to right, each in
\* its direction, ties in candidate order
C5_SortedResult ==
  (/\ call.op = "runSift"
   /\ ~call.args.firstOnly
   /\ Truthy(call.args.queryArgs.sort)
   /\ ret.k = "array"
   /\ Len(ret.a) > 1)
    => LET sort == call.args.queryArgs.sort
           crit(id) == [i \in DOMAIN sort.fields |->
                          SortValue(id, sort.fields[i], call.args.resolvedFields)]
           orders == [i \in DOMAIN sort.order |-> toLowerCase(sort.order[i])]
           cmp(a, b) == CompareFrom(crit(a), crit(b), orders, 1)
       IN \A i, j \in DOMAIN ret.a :
            i < j => \/ cmp(ret.a[i], ret.a[j]) < 0
                     \/ /\ cmp(ret.a[i], ret.a[j]) = 0
                        /\ Position(Candidates(call.args), ret.a[i])
                             < Position(Candidates(call.args), ret.a[j])

\* C6: an index entry, once built, is never rebuilt or changed, whatever
\* happens to the nodes afterwards
C6_IndexEntryKept ==
  [][\A key \in DOMAIN mappedByKey :
       key \in DOMAIN mappedByKey' /\ mappedByKey'[key] = mappedByKey[key]]_vars

\* ensureIndexByTypedChain was called again for a key whose entry no longer
\* is what a build would give
C6_Witness ==
  /\ call.op = "ensureIndexByTypedChain"
  /\ ~call.built
  /\ mappedByKey[TypedKey(call.chain, call.nodeTypeNames)] #
       BuildIndex(EmptyMap, nodes, call.chain, call.nodeTypeNames, objs)

\* the value at the end of the chain, field by field
FieldAt(node, chain) ==
  CASE chain = <<"id">> -> Str(node.id)
    [] chain = <<"title">> -> node.title
    [] chain = <<"__gatsby_resolved", "title">> ->
         (IF node.resolved.k = "object" THEN node.resolved.title ELSE Undefined)
    [] OTHER -> Undefined

LookupValues == Scalars \cup Ids

\* C7: right after an index was built, a lookup on the id chain gives at
\* most the one node with that id; on any other chain it gives a set of
\* nodes of the requested types whose value at the chain is the looked-up
\* scalar, and no stored node of a requested type with that value is missing
C7_IndexContents ==
  (call.op = "ensureIndexByTypedChain" /\ call.built)
    => \A s \in LookupValues :
         LET r == getNodesByTypedChain(mappedByKey, call.chain, Str(s), call.nodeTypeNames)
             holders == {id \in Range(nodes) :
                           /\ objs[id].type \in Range(call.nodeTypeNames)
                           /\ FieldAt(objs[id], call.chain) = Str(s)}
         IN IF call.chain = <<"id">>
            THEN /\ r.k \in {"undefined", "ref"}
                 /\ r.k = "ref" => r.id = s
                 /\ holders # {} => r.k = "ref"
            ELSE /\ r.k \in {"undefined", "set"}
                 /\ r.k = "set" =>
                      /\ Range(r.ids) \subseteq holders
                      /\ Len(r.ids) = Cardinality(Range(r.ids))
                 /\ holders # {} => (r.k = "set" /\ holders \subseteq Range(r.ids))

\* an index on a chain other than id was built and holds two nodes under
\* one value
C7_Witness ==
  /\ call.op = "ensureIndexByTypedChain"
  /\ call.built
  /\ call.chain # <<"id">>
  /\ \E s \in LookupValues :
       LET r == getNodesByTypedChain(mappedByKey, call.chain, Str(s), call.nodeTypeNames)
       IN r.k = "set" /\ Len(r.ids) >= 2


---------------------------------------------------------------------------
(* saveResolvedNodes *)

IsPrefix(s, t) == Len(s) <= Len(t) /\ SubSeq(t, 1, Len(s)) = s

RECURSIVE ExpectedInvocations(_)
\* the nodes of the listed types, type after type in list order, each type's
\* nodes in stored order
ExpectedInvocations(nodeTypeNames) ==
  IF nodeTypeNames = <<>> THEN <<>>
  ELSE NodesByType(Head(nodeTypeNames)) \o ExpectedInvocations(Tail(nodeTypeNames))

\* what the resolver returned in this batch for the nodes of one type
BuiltMapping(type) ==
  [id \in Range(NodesByType(type)) |-> MapGet(batch.results, id)]

\* the entry of one type in a cache, Undefined when there is none
CacheEntry(cache, type) == IF type \in DOMAIN cache THEN cache[type] ELSE Undefined

\* the listed types before position ti that have nodes
Published(ti) ==
  SelectSeq(SubSeq(batch.nodeTypeNames, 1, ti - 1),
            LAMBDA t : NodesByType(t) # <<>>)

\* C8: within one batch at most one resolver invocation is in flight, and
\* the invocations follow the type list and, within a type, the stored order
\* of its nodes; a batch that completed has invoked the resolver once per
\* node of the listed types, in that order.
C8_ResolversSequential ==
  batch.pc # "idle" =>
    /\ Cardinality(batch.inflight) <= 1
    /\ batch.pc = "await" => batch.inflight = {batch.ids[batch.ni]}
    /\ batch.inflight # {} => batch.inflight = {Last(batch.invoked)}
    /\ IsPrefix(batch.invoked, ExpectedInvocations(batch.nodeTypeNames))
    /\ batch.pc = "done" =>
         batch.invoked = ExpectedInvocations(batch.nodeTypeNames)

\* a batch over two types completed after two invocations
C8_Witness ==
  /\ batch.pc = "done"
  /\ Len(batch.nodeTypeNames) = 2
  /\ Len(batch.invoked) = 2
  /\ objs[batch.invoked[1]].type # objs[batch.invoked[2]].type

\* C9 as stated: while a batch runs, the entry of a type is either the one
\* from before the batch or the complete mapping this batch built for it,
\* one pair per node of the type, and after a batch that completed every
\* listed type's entry is the mapping this batch built.
C9_EveryListedTypePublished ==
  /\ batch.pc # "idle" =>
       \A t \in Types :
         \/ CacheEntry(resolvedNodesCache, t) = CacheEntry(batch.cache0, t)
         \/ /\ Range(NodesByType(t)) \subseteq DOMAIN batch.results
            /\ CacheEntry(resolvedNodesCache, t) = BuiltMapping(t)
  /\ batch.pc = "done" =>
       \A t \in Range(batch.nodeTypeNames) :
         CacheEntry(resolvedNodesCache, t) = BuiltMapping(t)

\* C9 amended: while a batch runs, the entry of a type that the batch has
\* not published yet is the one from before the batch, and the entry of a
\* published type is the complete mapping this batch built for it: exactly one
\* pair per node of the type, the value being what the resolver returned,
\* nothing kept from the old entry. A type is published once, after all its
\* nodes were resolved. After a batch that completed, every listed type that
\* has nodes is published; a listed type without nodes keeps its old entry.
C9_TypesWithNodesPublished ==
  batch.pc # "idle" =>
    /\ batch.dispatched = Published(batch.ti)
    /\ \A t \in Types :
         IF t \in Range(batch.dispatched)
         THEN /\ Range(NodesByType(t)) \subseteq DOMAIN batch.results
              /\ CacheEntry(resolvedNodesCache, t) = BuiltMapping(t)
              /\ DOMAIN resolvedNodesCache[t] = Range(NodesByType(t))
         ELSE CacheEntry(resolvedNodesCache, t) = CacheEntry(batch.cache0, t)
    /\ batch.pc = "done" =>
         /\ batch.ti = Len(batch.nodeTypeNames) + 1
         /\ \A t \in Range(batch.nodeTypeNames) :
              NodesByType(t) # <<>> => t \in Range(batch.dispatched)

\* a batch completed that replaced an earlier entry of one listed type by
\* other values and left a listed type without nodes unpublished
C9_Witness ==
  /\ batch.pc = "done"
  /\ \E t \in Range(batch.nodeTypeNames) :
       /\ t \in Range(batch.dispatched)
       /\ t \in DOMAIN batch.cache0
       /\ batch.cache0[t] # resolvedNodesCache[t]
  /\ \E t \in Range(batch.nodeTypeNames) : NodesByType(t) = <<>>

---------------------------------------------------------------------------
(* the id shortcut, filter shapes *)

\* the compiled filter of a query
SiftFilter(args) ==
  liftResolvedFields(toDottedFields(args.queryArgs.filter), args.resolvedFields)

\* the number of operator clauses of a compiled filter
RECURSIVE ClauseCount(_)
ClauseCount(siftArgs) ==
  IF siftArgs = <<>> THEN 0 ELSE Len(Head(siftArgs).ops) + ClauseCount(Tail(siftArgs))

\* the compiled filter holds the clause id $eq X
HasIdEq(siftArgs) ==
  \E i \in DOMAIN siftArgs :
    /\ siftArgs[i].path = <<"id">>
    /\ \E j \in DOMAIN siftArgs[i].ops : siftArgs[i].ops[j].op = "$eq"

\* C11: a query whose filter holds an id-equality clause together with
\* further clauses returns only nodes that satisfy all clauses of the filter
\* (the id shortcut does not answer it).
C11_IdShortcutOnlyAlone ==
  (/\ call.op = "runSift"
   /\ HasIdEq(SiftFilter(call.args))
   /\ ClauseCount(SiftFilter(call.args)) > 1)
    => ResultSet(ret) \subseteq MatchingNodes(call.args)

\* the query's filter is { id: { eq: <scalar> } } and nothing else
IsIdEqQuery(args) ==
  /\ Len(args.queryArgs.filter) = 1
  /\ args.queryArgs.filter[1].chain = <<"id", "eq">>
  /\ IsScalar(args.queryArgs.filter[1].val)

\* what the id index of the query's types holds for the id asked for, after
\* the call
IdIndexEntry(args) ==
  getNodesByTypedChain(mappedByKey, <<"id">>, args.queryArgs.filter[1].val,
                       args.nodeTypeNames)

---------------------------------------------------------------------------
(* the overlay on read *)

\* C13: the node getResolvedNode returns, and every node addResolvedNodes
\* pushes, has in its resolved slot what the cache holds for (type, id) at
\* that moment, undefined when it holds nothing: whatever the slot held
\* before the read is gone.
C13_SlotIsCacheValue ==
  /\ (call.op = "getResolvedNode" /\ ret.k = "ref")
       => objs[ret.id].resolved = CacheGet(resolvedNodesCache, call.typeName, ret.id)
  /\ call.op = "addResolvedNodes"
       => \A i \in DOMAIN ret.a :
            objs[ret.a[i]].resolved
              = CacheGet(resolvedNodesCache, call.typeName, ret.a[i])

\* a read found a value in the slot and replaced it by another one
C13_Witness ==
  /\ call.op = "getResolvedNode" /\ ret.k = "ref"
  /\ Truthy(call.before)
  /\ Truthy(objs[ret.id].resolved)
  /\ objs[ret.id].resolved # call.before

---------------------------------------------------------------------------
(* the sort of handleMany *)

\* the path of C14 as stated: the slot path when the field is declared or is
\* a prefix of a declared path
StatedSortPath(field, resolvedFields) ==
  IF field \in resolvedFields \/ \E key \in resolvedFields : StartsWith(key, field)
  THEN <<"__gatsby_resolved", ".">> \o field
  ELSE field

\* the path of C14 amended: the slot path when the field is declared or a
\* declared path is a prefix of the field
AmendedSortPath(field, resolvedFields) ==
  IF field \in resolvedFields \/ \E key \in resolvedFields : StartsWith(field, key)
  THEN <<"__gatsby_resolved", ".">> \o field
  ELSE field

\* the result of a sorted query is in the order of its sort fields, each
\* compared on its path (the stated one or the amended one), in its
\* direction, ties in candidate order
OrderedOn(stated) ==
  LET sort == call.args.queryArgs.sort
      crit(id) == [i \in DOMAIN sort.fields |->
                     getValueAt(Overlaid(objs[id]),
                                IF stated
                                THEN StatedSortPath(sort.fields[i],
                                                    call.args.resolvedFields)
                                ELSE AmendedSortPath(sort.fields[i],
                                                     call.args.resolvedFields))]
      orders == [i \in DOMAIN sort.order |-> toLowerCase(sort.order[i])]
      cmp(a, b) == CompareFrom(crit(a), crit(b), orders, 1)
  IN \A i, j \in DOMAIN ret.a :
       i < j => \/ cmp(ret.a[i], ret.a[j]) < 0
                \/ /\ cmp(ret.a[i], ret.a[j]) = 0
                   /\ Position(Candidates(call.args), ret.a[i])
                        < Position(Candidates(call.args), ret.a[j])

\* handleMany sorted the result of the call
SortedByHandleMany ==
  /\ call.op = "runSift"
  /\ ~call.fast
  /\ ~call.args.firstOnly
  /\ Truthy(call.args.queryArgs.sort)
  /\ ret.k = "array"
  /\ Len(ret.a) > 1

\* C14 as stated: handleMany compares a sort field on its resolved-slot path
\* exactly when the field is declared resolved or is a prefix of a declared
\* resolved path, and on its native path otherwise.
C14_SortPathFieldIsPrefix == SortedByHandleMany => OrderedOn(TRUE)

\* C14 amended: handleMany compares a sort field on its resolved-slot path
\* exactly when the field is declared resolved or a declared resolved path is
\* a prefix of the field, and on its native path otherwise.
C14_SortPathKeyIsPrefix == SortedByHandleMany => OrderedOn(FALSE)

\* handleMany sorted two nodes by their native titles, against candidate
\* order, while a path below title is declared resolved
C14_Witness ==
  /\ SortedByHandleMany
  /\ call.args.resolvedFields = NestedResolvedFields
  /\ call.args.queryArgs.sort.fields = <<<<"title">>>>
  /\ \E i, j \in DOMAIN ret.a :
       /\ i < j
       /\ Position(Candidates(call.args), ret.a[i])
            > Position(Candidates(call.args), ret.a[j])

---------------------------------------------------------------------------
(* filters the typed-chain index does not serve *)

\* the filter is absent, is not one chain of one-key objects ending in a
\* scalar operand, has elemMatch in the chain, or ends in an operator other
\* than eq
NotFlatEq(filter) ==
  \/ filter = <<>>
  \/ Len(filter) > 1
  \/ /\ Len(filter) = 1
     /\ \/ ~IsScalar(filter[1].val)
        \/ "elemMatch" \in Range(filter[1].chain)
        \/ Last(filter[1].chain) # "eq"

---------------------------------------------------------------------------
(* the index lookup and the index keys *)

\* C16: getNodesByTypedChain changes neither the index cache nor any node
\* nor the store, and returns undefined when no entry exists for the key of
\* its type names and chain or when that entry does not hold the value.
C16_LookupIsPure ==
  [][(call = Idle /\ call'.op = "getNodesByTypedChain")
       => LET key == TypedKey(call'.chain, call'.nodeTypeNames) IN
            /\ UNCHANGED <<mappedByKey, objs, nodes, resolvedNodesCache>>
            /\ key \notin DOMAIN mappedByKey => ret' = Undefined
            /\ (key \in DOMAIN mappedByKey
                  /\ call'.value.s \notin DOMAIN mappedByKey[key])
                 => ret' = Undefined
            /\ (key \in DOMAIN mappedByKey
                  /\ call'.value.s \in DOMAIN mappedByKey[key])
                 => ret' = mappedByKey[key][call'.value.s]]_vars

\* a lookup returned undefined for type names and a chain never indexed,
\* while the same chain is indexed for the same type names in the other
\* order and holds the value
C16_Witness ==
  /\ call.op = "getNodesByTypedChain"
  /\ ret = Undefined
  /\ TypedKey(call.chain, call.nodeTypeNames) \notin DOMAIN mappedByKey
  /\ LET other == TypedKey(call.chain, Reverse(call.nodeTypeNames)) IN
       /\ other \in DOMAIN mappedByKey
       /\ call.value.s \in DOMAIN mappedByKey[other]

\* the (ordered type names, chain) pairs an index is asked for
IndexPairs == TypeLists \X Chains

\* C17: two different (ordered type names, chain) pairs never have the same
\* key, and a call of ensureIndexByTypedChain for a pair without an entry
\* adds one entry, under the key of that pair, built from the nodes as they
\* are at that call, and leaves every other entry alone.
C17_OneEntryPerOrderedPair ==
  [][/\ \A p, q \in IndexPairs :
          p # q => TypedKey(p[2], p[1]) # TypedKey(q[2], q[1])
     /\ (call = Idle /\ call'.op = "ensureIndexByTypedChain" /\ call'.built)
          => LET key == TypedKey(call'.chain, call'.nodeTypeNames) IN
               /\ key \notin DOMAIN mappedByKey
               /\ DOMAIN mappedByKey' = DOMAIN mappedByKey \cup {key}
               /\ mappedByKey'[key] = BuildIndex(EmptyMap, nodes', call'.chain,
                                                 call'.nodeTypeNames, objs')
               /\ \A k \in DOMAIN mappedByKey : mappedByKey'[k] = mappedByKey[k]]_vars

\* the same chain is indexed for the same two type names in both orders,
\* and the two entries differ: the second one saw other nodes
C17_Witness ==
  \E c \in Chains :
    LET k1 == TypedKey(c, <<"Post", "Page">>)
        k2 == TypedKey(c, <<"Page", "Post">>)
    IN /\ k1 \in DOMAIN mappedByKey
       /\ k2 \in DOMAIN mappedByKey
       /\ mappedByKey[k1] # mappedByKey[k2]

---------------------------------------------------------------------------
(* runSiftOnNodes on the caller's candidates *)

\* C18: every node runSiftOnNodes returns is one of the candidates it was
\* given, whatever the filter.
C18_ResultWithinCandidates ==
  call.op = "runSiftOnNodes" => ResultSet(ret) \subseteq Range(call.nodes)

---------------------------------------------------------------------------
(* deleted nodes *)

\* C19: every node runSift returns is in the node store when the query runs.
C19_ReturnedNodesStored ==
  call.op = "runSift" => ResultSet(ret) \subseteq Range(nodes)

====
